---- MODULE Spec2Model ----
(***************************************************************************)
(* Token lifecycle of tesla.Client (src/tesla/client.py): the OAuth2/PKCE  *)
(* session, its on-disk token cache and the collaborators built from it.   *)
(* One action per public method of Client; the helpers are operators over  *)
(* a record holding the session's fields, so that a method's calls to      *)
(* other methods are part of the same step.                                *)
(***************************************************************************)
EXTENDS Integers, Sequences, FiniteSets, TLC

\* ---------------------------------------------------------------- bounds
MaxTime == 2            \* the clock stops advancing here
MaxTTL == 1             \* largest expires_in a token response carries
NumTokens == 2          \* distinct access/refresh token values the server issues
NumVerifiers == 2       \* distinct values of urandom(32)

\* ------------------------------------------------------------ value space
None == 0               \* Python None / attribute or key not set
NoExp == 0 - 1          \* token dict without an 'expires_at' key
Email == "me"           \* Client.email of the session under study
Identities == {"me", "other"}
DefaultSso == "auth.tesla.com"
Origins == {"auth.tesla.com", "auth.tesla.cn"}
OldAccess == NumTokens + 1      \* access token of a record cached by an earlier run

\* self.token = str()
StrToken == [t |-> "str", access |-> None, refresh |-> None, expires_at |-> NoExp]
\* dict()
EmptyDict == [t |-> "dict", access |-> None, refresh |-> None, expires_at |-> NoExp]
MkToken(a, r, e) == [t |-> "dict", access |-> a, refresh |-> r, expires_at |-> e]

\* bool(token): '' and {} are falsy
Truthy(tok) == tok.t = "dict" /\ (tok.access # None \/ tok.refresh # None \/ tok.expires_at # NoExp)

Absent == [present |-> FALSE, url |-> "", sso |-> EmptyDict]
Record(url, tok) == [present |-> TRUE, url |-> url, sso |-> tok]
EmptyCache == [i \in Identities |-> Absent]

\* file modes: S_IWUSR | S_IRUSR | S_IRGRP, what open() creates under the
\* usual umask (world-readable), and no file
OwnerRwGroupR == "0640"
UmaskMode == "0644"
NoMode == "none"

S256(v) == <<"S256", v>>
NoChallenge == <<"none", 0>>

AuthorizePath == "/oauth2/v3/authorize"
TokenPath == "/oauth2/v3/token"
LogoutPath == "/oauth2/v3/logout?client_id=ownerapi"

\* urljoin(base, path) for an absolute path: the origin of base, then path
UrlJoin(base, path) == [origin |-> base, path |-> path, challenge |-> NoChallenge, hint |-> FALSE]
NoUrl == [origin |-> "", path |-> "", challenge |-> NoChallenge, hint |-> FALSE]
\* urljoin(url, '/')
Origin(url) == url.origin

NoRet == [kind |-> "none", tok |-> StrToken, url |-> NoUrl]
TokRet(tok) == [kind |-> "token", tok |-> tok, url |-> NoUrl]
UrlRet(url) == [kind |-> "url", tok |-> StrToken, url |-> url]
\* the 'response' member of an API answer
ValueRet == [kind |-> "value", tok |-> StrToken, url |-> NoUrl]

\* ------------------------------------------------- Python value semantics
RECURSIVE DecStr(_)
\* '%d' % n, as the sequence of its digits
DecStr(n) == IF n < 10 THEN <<n>> ELSE DecStr(n \div 10) \o <<n % 10>>

PyInt(n) == [type |-> "int", val |-> <<n>>]
\* datetime.now().strftime('%s'): the epoch seconds as a str
Strftime(n) == [type |-> "str", val |-> DecStr(n)]

RECURSIVE SeqLE(_, _)
\* lexicographic order of two sequences of digits
SeqLE(a, b) ==
    IF a = <<>> THEN TRUE
    ELSE IF b = <<>> THEN FALSE
    ELSE IF Head(a) # Head(b) THEN Head(a) < Head(b)
    ELSE SeqLE(Tail(a), Tail(b))

\* x <= y in Python 3: ordering an int against a str raises TypeError
PyLE(x, y) ==
    IF x.type # y.type THEN [raised |-> TRUE, val |-> FALSE]
    ELSE IF x.type = "int" THEN [raised |-> FALSE, val |-> x.val[1] <= y.val[1]]
    ELSE [raised |-> FALSE, val |-> SeqLE(x.val, y.val)]

\* ------------------------------------------------------------------ state
VARIABLES
    token,              \* OAuth2Session.token (the client's token dict)
    access_token,       \* OAuth2Session.access_token (attribute of the oauthlib client)
    client_refresh,     \* refresh_token attribute of the oauthlib client
    sso_base_url,       \* Client.sso_base_url
    code_verifier,      \* Client.code_verifier, None until authorization_url sets it
    url_challenge,      \* the code_challenge of the authorization URL built last
    account,            \* Client.account: None, or the bearer token Account captured
    vehicles,           \* Client.vehicles: None, or the bearer token the Vehicles captured
    cacheFile,          \* the file at Client.cache_file
    now,                \* time()
    lastOp              \* the call made by the last step, its requests and its outcome

vars == <<token, access_token, client_refresh, sso_base_url, code_verifier, url_challenge,
          account, vehicles, cacheFile, now, lastOp>>

\* ------------------------------------------------------ the session record
\* The fields of the Client a method reads and writes, with what the call
\* has done so far: HTTP requests sent (net), calls of _dump_cache (dumps),
\* URLs given to the browser or the operator (opened), the exception raised
\* (exc, "" when none) and the value returned (ret).
Cur ==
    [token |-> token, access_token |-> access_token, client_refresh |-> client_refresh,
     sso_base_url |-> sso_base_url, code_verifier |-> code_verifier,
     url_challenge |-> url_challenge,
     account |-> account, vehicles |-> vehicles, file |-> cacheFile,
     net |-> <<>>, dumps |-> <<>>, opened |-> <<>>, exc |-> "", ret |-> NoRet]

Raise(s, e) == [s EXCEPT !.exc = e]

Request(kind, origin, grant, verifier, refresh, challenge, resp) ==
    [kind |-> kind, origin |-> origin, grant |-> grant, verifier |-> verifier,
     refresh |-> refresh, challenge |-> challenge, resp |-> resp,
     location |-> NoUrl, tok |-> EmptyDict, bearer |-> None]

\* OAuth2Session.authorized: bool(self.access_token)
authorized(s) == s.access_token # None

\* OAuth2Session.token setter: stores the value, then populate_token_attributes
\* copies the keys the value has; keys it lacks leave the attributes alone.
SetToken(s, tok) ==
    [s EXCEPT !.token = tok,
              !.access_token = IF tok.access # None THEN tok.access ELSE @,
              !.client_refresh = IF tok.refresh # None THEN tok.refresh ELSE @]

\* Client.expires_at: self.token.get('expires_at')
expires_at(s) == s.token.expires_at

\* The exception Client.expired raises, "" when it evaluates: a str has no
\* .get, and None - time() is a TypeError.
ExpiredExc(s) ==
    IF s.token.t = "str" THEN "AttributeError"
    ELSE IF expires_at(s) = NoExp THEN "TypeError"
    ELSE ""

\* Client.expired
expired(s, t) == expires_at(s) - t <= 0

\* Client._load_cache, the try block: whether anything in it raises
LoadRaises(f, t) ==
    \/ f.kind # "ok"                                    \* open() or json.load() fails
    \/ ~f.data[Email].present                           \* KeyError: email
    \/ f.data[Email].sso.expires_at = NoExp             \* KeyError: 'expires_at'
    \/ PyLE(PyInt(f.data[Email].sso.expires_at), Strftime(t)).raised     \* TypeError
    \/ PyLE(PyInt(f.data[Email].sso.expires_at), Strftime(t)).val
                                                        \* self.expired = True: no setter

\* Client._load_cache: the parsed file, or an empty dict when anything in the
\* try block raises.  The except branch creates the cache directory with
\* Path.mkdir(), which itself raises when the directory's parent is missing.
_load_cache(s, t) ==
    IF ~LoadRaises(s.file, t) THEN [cache |-> s.file.data, file |-> s.file, exc |-> ""]
    ELSE IF s.file.kind = "noparent"
         THEN [cache |-> EmptyCache, file |-> s.file, exc |-> "FileNotFoundError"]
    ELSE [cache |-> EmptyCache,
          file |-> IF s.file.kind = "nodir" THEN [s.file EXCEPT !.kind = "missing"] ELSE s.file,
          exc |-> ""]

\* a _dump_cache that logs and writes nothing
_dump_cache_unwritten(f, cache, io) == f

\* open(cache_file, 'w'): an existing file is emptied and keeps its mode, a
\* missing one is created with the mode the umask leaves
Truncated(f) ==
    [kind |-> "corrupt", data |-> EmptyCache,
     mode |-> IF f.kind \in {"ok", "corrupt"} THEN f.mode ELSE UmaskMode]

\* a chmod that is not made
chmod_skipped(f) == f

\* chmod(cache_file, S_IWUSR | S_IRUSR | S_IRGRP)
chmod(f) == [f EXCEPT !.mode = OwnerRwGroupR]

\* Client._dump_cache: open(cache_file, 'w') truncates, json.dump writes,
\* chmod follows; IOError is logged.  io is what the filesystem does.
_dump_cache(f, cache, io) ==
    IF f.kind \in {"noparent", "nodir"} \/ io = "open_err" THEN f
    ELSE IF io = "write_err" THEN Truncated(f)
    ELSE chmod([Truncated(f) EXCEPT !.kind = "ok", !.data = cache])

\* The server never issues the access token the session already holds.
Issued(s) == (s.access_token % NumTokens) + 1

\* The token oauthlib builds from a token response: expires_at = time() + expires_in
NewToken(s, r, t) ==
    IF r.ok THEN MkToken(Issued(s), IF r.refresh THEN Issued(s) ELSE None, t + r.ttl)
    ELSE EmptyDict

NoArgs == [authorization_response |-> "none", code_verifier |-> None,
           refresh_token |-> None, sign_out |-> FALSE]

\* an authorization_url that generates a verifier only when the session has
\* none, while the challenge placed in the URL is that of a new one
new_pkce_once(s, e) ==
    [s EXCEPT !.code_verifier = IF @ = None THEN e.verifier ELSE @,
              !.url_challenge = S256(e.verifier)]

\* Client.authorization_url, the PKCE pair: a new code_verifier is kept on
\* the session and its S256 challenge goes into the URL parameters
new_pkce(s, e) ==
    [s EXCEPT !.code_verifier = e.verifier, !.url_challenge = S256(e.verifier)]

\* Client.authorization_url: the two URLs built from the session's base URL
without_hint(s) == [UrlJoin(s.sso_base_url, AuthorizePath) EXCEPT !.challenge = s.url_challenge]
with_hint(s) == [without_hint(s) EXCEPT !.hint = TRUE]

\* response.headers['Location'] of a redirecting SSO server: the same
\* authorization request at the account's regional origin
Location(s, e) ==
    IF e.probe.status = "redirect"
    THEN [with_hint(s) EXCEPT !.origin = e.probe.origin]
    ELSE NoUrl

\* an authorization_url that returns the redirect target and keeps its base URL
detect_region_same_base(s, e) ==
    [s EXCEPT
        !.net = Append(@, [Request("probe", with_hint(s).origin, "", None, None,
                                   with_hint(s).challenge, e.probe.status)
                              EXCEPT !.location = Location(s, e)]),
        !.ret = UrlRet(IF e.probe.status = "redirect" THEN Location(s, e)
                       ELSE IF e.probe.status = "ok" THEN with_hint(s)
                       ELSE without_hint(s))]

\* Client.authorization_url, the region probe: GET the login_hint URL without
\* following redirects; a redirect moves the session to the target's origin
detect_region(s, e) ==
    [s EXCEPT
        !.net = Append(@, [Request("probe", with_hint(s).origin, "", None, None,
                                   with_hint(s).challenge, e.probe.status)
                              EXCEPT !.location = Location(s, e)]),
        !.sso_base_url = IF e.probe.status = "redirect" THEN Origin(Location(s, e)) ELSE @,
        !.ret = UrlRet(IF e.probe.status = "redirect" THEN Location(s, e)
                       ELSE IF e.probe.status = "ok" THEN with_hint(s)
                       ELSE without_hint(s))]

\* an authorization_url without the early return for an authorized session
authorization_url_again(s, e) == detect_region(new_pkce(s, e), e)

\* Client.authorization_url
authorization_url(s, e) ==
    IF authorized(s) THEN [s EXCEPT !.ret = NoRet]
    ELSE detect_region(new_pkce(s, e), e)

\* Client._authenticate(url): the operator is shown the URL the session built
\* (a) and pastes back the page the SSO service redirected to
_authenticate(a) == [a EXCEPT !.opened = Append(@, a.ret.url), !.ret = NoRet]

\* OAuth2Session.fetch_token as Client.fetch_token calls it: one POST of the
\* authorization code and the verifier to the token endpoint; an error
\* response raises before anything is stored
super_fetch_token(s, t, verifier, e) ==
    IF e.tok.ok
    THEN SetToken([s EXCEPT !.net = Append(@,
                        [Request("token", s.sso_base_url, "authorization_code", verifier, None,
                                 NoChallenge, "ok") EXCEPT !.tok = NewToken(s, e.tok, t)])],
                  NewToken(s, e.tok, t))
    ELSE [s EXCEPT !.net = Append(@, Request("token", s.sso_base_url, "authorization_code",
                                              verifier, None, NoChallenge, "error")),
                   !.exc = "OAuth2Error"]

\* OAuth2Session.refresh_token: the refresh token sent is the argument, else
\* the token dict's, else the oauthlib client's attribute
SentRefresh(s, arg) ==
    IF arg # None THEN arg
    ELSE IF s.token.refresh # None THEN s.token.refresh
    ELSE s.client_refresh

\* OAuth2Session.refresh_token as Client.refresh_token calls it: one POST to
\* the token endpoint; an error response raises before anything is stored,
\* and a new token without a refresh_token gets the argument or the old one
super_refresh_token(s, t, arg, e) ==
    IF e.tok.ok
    THEN [SetToken([s EXCEPT !.net = Append(@,
                        [Request("token", s.sso_base_url, "refresh_token", None,
                                 SentRefresh(s, arg), NoChallenge, "ok")
                            EXCEPT !.tok = NewToken(s, e.tok, t)])],
                   NewToken(s, e.tok, t))
            EXCEPT !.token.refresh = IF @ # None THEN @
                                     ELSE IF arg # None THEN arg ELSE s.token.refresh]
    ELSE [s EXCEPT !.net = Append(@, Request("token", s.sso_base_url, "refresh_token", None,
                                              SentRefresh(s, arg), NoChallenge, "error")),
                   !.exc = "OAuth2Error"]

RECURSIVE fetch_token(_, _, _, _)

\* Client._token_updater, the branch that read a record of this account from
\* the cache (s already holds its url and token)
use_cached(s, t, e) ==
    IF ~Truthy(s.token) THEN s
    ELSE IF expires_at(s) = NoExp THEN Raise(s, "TypeError")
    ELSE IF 0 < expires_at(s) /\ expires_at(s) < t
         THEN [fetch_token(s, t, NoArgs, e) EXCEPT !.ret = NoRet]
    ELSE s

\* Client._token_updater, after the cache was loaded into `cache`
update_with(s, cache, t, e) ==
    IF authorized(s) /\ ExpiredExc(s) # "" THEN Raise(s, ExpiredExc(s))
    ELSE IF authorized(s) /\ ~expired(s, t) THEN
        [s EXCEPT
            !.file = _dump_cache(@, [cache EXCEPT ![Email] = Record(s.sso_base_url, s.token)],
                                 e.io),
            !.dumps = Append(@, [cache |-> [cache EXCEPT ![Email] =
                                                Record(s.sso_base_url, s.token)],
                                 io |-> e.io])]
    ELSE IF cache[Email].present THEN
        use_cached(SetToken([s EXCEPT !.sso_base_url = cache[Email].url], cache[Email].sso),
                   t, e)
    ELSE s

\* Client._token_updater
_token_updater(s, t, e) ==
    IF _load_cache(s, t).exc # "" THEN Raise(s, _load_cache(s, t).exc)
    ELSE update_with([s EXCEPT !.file = _load_cache(s, t).file], _load_cache(s, t).cache, t, e)

\* Client.fetch_token, the end: the Account is built from the saved token
populate_account(s) ==
    IF s.exc # "" THEN s
    ELSE [s EXCEPT !.account = s.token.access, !.ret = TokRet(s.token)]

\* a fetch_token that absorbs the failure of the exchange and goes on
save_new_token_anyway(s, t, e) ==
    populate_account(_token_updater(Raise(s, ""), t, e))

\* Client.fetch_token, after the exchange: the new token is saved
save_new_token(s, t, e) ==
    IF s.exc # "" THEN s ELSE populate_account(_token_updater(s, t, e))

\* Client.fetch_token, the exchange: the verifier sent is the caller's, else
\* the session's (reading it raises when no URL was ever built)
exchange_code(s, t, args, e) ==
    IF s.code_verifier = None THEN Raise(s, "AttributeError")
    ELSE save_new_token(
            super_fetch_token(s, t, IF args.code_verifier # None THEN args.code_verifier
                                    ELSE s.code_verifier, e),
            t, e)

\* Client.fetch_token
fetch_token(s, t, args, e) ==
    IF authorized(s) THEN [s EXCEPT !.ret = TokRet(s.token)]
    ELSE exchange_code(IF args.authorization_response = "none"
                       THEN _authenticate(authorization_url(s, e))
                       ELSE s,
                       t, args, e)

\* Client.refresh_token, the end
return_token(s) ==
    IF s.exc # "" THEN s ELSE [s EXCEPT !.ret = TokRet(s.token)]

\* a refresh_token that saves the session's token whatever the exchange did
save_refreshed_anyway(s, t, e) ==
    [return_token(_token_updater(Raise(s, ""), t, e)) EXCEPT !.exc = s.exc]

\* Client.refresh_token, after the exchange: the new token is saved
save_refreshed(s, t, e) ==
    IF s.exc # "" THEN s ELSE return_token(_token_updater(s, t, e))

\* Client.refresh_token
refresh_token(s, t, args, e) ==
    IF ~authorized(s) /\ args.refresh_token = None THEN Raise(s, "ValueError")
    ELSE save_refreshed(super_refresh_token(s, t, args.refresh_token, e), t, e)

\* Client.logout, the end: the access token is deleted and the URL returned
forget_token(s, url) ==
    IF s.exc # "" THEN s
    ELSE [s EXCEPT !.access_token = None, !.ret = UrlRet(url)]

\* Client.logout
logout(s, t, args, e) ==
    IF ~authorized(s) THEN [s EXCEPT !.ret = NoRet]
    ELSE forget_token(
            _token_updater(
                SetToken(IF args.sign_out
                         THEN [s EXCEPT !.opened = Append(@, UrlJoin(s.sso_base_url, LogoutPath))]
                         ELSE s,
                         EmptyDict),
                t, e),
            UrlJoin(s.sso_base_url, LogoutPath))

\* _request_wrappers.get: one GET with the headers the object holds (bearer);
\* response.json()['response'] is returned whatever the status, and a body
\* without the 'response' key is a KeyError.  raise_for_status is not called.
get(s, bearer, resp) ==
    [s EXCEPT !.net = Append(@, [Request("api", "owner-api", "", None, None, NoChallenge, resp)
                                    EXCEPT !.bearer = bearer]),
              !.exc = IF resp = "error" THEN "KeyError" ELSE @,
              !.ret = IF resp = "error" THEN @ ELSE ValueRet]

\* _request_wrappers.post: as get, with a POST
post(s, bearer, resp) ==
    [s EXCEPT !.net = Append(@, [Request("api", "owner-api", "", None, None, NoChallenge, resp)
                                    EXCEPT !.bearer = bearer]),
              !.exc = IF resp = "error" THEN "KeyError" ELSE @,
              !.ret = IF resp = "error" THEN @ ELSE ValueRet]

\* Client.login, the dict comprehension: one Vehicle per entry, each with
\* headers built from the session's token; a null list cannot be iterated
build_vehicles(s) ==
    IF s.exc # "" THEN s
    ELSE IF s.net[Len(s.net)].resp # "ok" THEN Raise(s, "TypeError")
    ELSE [s EXCEPT !.vehicles = s.token.access, !.ret = NoRet]

\* Client.login, the end: GET vehicles through the Account, one Vehicle each
map_vehicles(s, e) ==
    IF s.exc # "" THEN s
    ELSE IF s.account = None THEN Raise(s, "AttributeError")
    ELSE build_vehicles(get(s, s.account, e.veh))

\* Client.login, after the cache was tried
login_fetch(s, t, e) ==
    IF s.exc # "" THEN s ELSE map_vehicles(fetch_token(s, t, NoArgs, e), e)

\* Client.login
login(s, t, e) == login_fetch(_token_updater(s, t, e), t, e)

\* ------------------------------------------------------------ environment
\* What the collaborators answer during one call: the bytes urandom returns,
\* the SSO server's answer to the login_hint probe, the token endpoint's answer, what the filesystem does with a
\* write of the cache file, and the owner API's answer to GET vehicles.
Probes ==
    {[status |-> "redirect", origin |-> o] : o \in Origins}
        \cup {[status |-> st, origin |-> ""] : st \in {"ok", "error"}}
\* a token response: an error, or a token that may carry a refresh_token
TokenError == [ok |-> FALSE, refresh |-> FALSE, ttl |-> 0]
TokenResponses ==
    {TokenError} \cup {[ok |-> TRUE, refresh |-> r, ttl |-> d] : r \in BOOLEAN, d \in 1..MaxTTL}
\* what the filesystem does with a write: it succeeds, or it fails after
\* open() has truncated the file
IoOutcomes == {"ok", "write_err"}
Quiet == [verifier |-> 1, probe |-> [status |-> "ok", origin |-> ""],
          tok |-> TokenError, io |-> "ok", veh |-> "ok"]

\* the environments of a call that builds an authorization URL
UrlEnvs == {[Quiet EXCEPT !.verifier = v, !.probe = p] : v \in 1..NumVerifiers, p \in Probes}
\* ... that may reach the token endpoint and then the cache file
TokenEnvs(base) == {[b EXCEPT !.tok = r, !.io = o] : b \in base, r \in TokenResponses, o \in IoOutcomes}
IoEnvs == {[Quiet EXCEPT !.io = o] : o \in IoOutcomes}

\* Cache files left by earlier runs: none, an unparsable one, and files that
\* hold another account's record next to nothing, a tombstone, or a record of
\* this account whose token expires at any time around the first call.
InitTokens == {MkToken(OldAccess, OldAccess, e) : e \in {0, 1, MaxTime + 1}}
OtherRecord == Record(DefaultSso, MkToken(OldAccess, OldAccess, MaxTime + 1))
InitFiles ==
    {[kind |-> "nodir", data |-> EmptyCache, mode |-> NoMode],
     [kind |-> "corrupt", data |-> EmptyCache, mode |-> OwnerRwGroupR]}
        \cup {[kind |-> "ok", mode |-> OwnerRwGroupR,
               data |-> [i \in Identities |-> IF i = Email THEN m ELSE OtherRecord]] :
                m \in {Absent, Record("auth.tesla.cn", EmptyDict)}
                        \cup {Record("auth.tesla.cn", tk) : tk \in InitTokens}}

Idle(op) == [op |-> op, args |-> NoArgs, exc |-> "", ret |-> NoRet,
             net |-> <<>>, dumps |-> <<>>, opened |-> <<>>]

\* Client.__init__, on a machine whose cache file is in any of its states
Init ==
    /\ token = StrToken
    /\ access_token = None
    /\ client_refresh = None
    /\ sso_base_url = DefaultSso
    /\ code_verifier = None
    /\ url_challenge = NoChallenge
    /\ account = None
    /\ vehicles = None
    /\ cacheFile \in InitFiles
    /\ now = 1
    /\ lastOp = Idle("init")

\* the call returns or raises: the session keeps what the call did to it
Commit(op, args, s) ==
    /\ token' = s.token
    /\ access_token' = s.access_token
    /\ client_refresh' = s.client_refresh
    /\ sso_base_url' = s.sso_base_url
    /\ code_verifier' = s.code_verifier
    /\ url_challenge' = s.url_challenge
    /\ account' = s.account
    /\ vehicles' = s.vehicles
    /\ cacheFile' = s.file
    /\ lastOp' = [op |-> op, args |-> args, exc |-> s.exc, ret |-> s.ret,
                  net |-> s.net, dumps |-> s.dumps, opened |-> s.opened]
    /\ UNCHANGED now

\* A call on a session that is already authorized builds no URL and asks the
\* token endpoint nothing (authorization_url and fetch_token return at once),
\* so only the answers it can consume are drawn.
Login ==
    \E e \in IF authorized(Cur)
             THEN {[b EXCEPT !.veh = v] : b \in IoEnvs, v \in {"ok", "error"}}
             ELSE {[b EXCEPT !.veh = v] : b \in TokenEnvs(UrlEnvs), v \in {"ok", "error"}} :
        Commit("login", NoArgs, login(Cur, now, e))

AuthorizationUrl ==
    \E e \in IF authorized(Cur) THEN {Quiet} ELSE UrlEnvs :
        Commit("authorization_url", NoArgs, authorization_url(Cur, e))

\* fetch_token(): the session opens the SSO page itself
FetchTokenInteractive ==
    \E e \in IF authorized(Cur) THEN {Quiet}
             ELSE TokenEnvs(UrlEnvs) :
        Commit("fetch_token", NoArgs, fetch_token(Cur, now, NoArgs, e))

\* fetch_token(authorization_response=..., [code_verifier=...])
FetchTokenWithResponse ==
    \E e \in IF authorized(Cur) THEN {Quiet} ELSE TokenEnvs({Quiet}),
       v \in 0..NumVerifiers :
        LET args == [NoArgs EXCEPT !.authorization_response = "given", !.code_verifier = v]
        IN  Commit("fetch_token", args, fetch_token(Cur, now, args, e))

\* refresh_token([refresh_token=...])
RefreshToken ==
    \E e \in TokenEnvs({Quiet}), r \in {None, OldAccess} :
        LET args == [NoArgs EXCEPT !.refresh_token = r]
        IN  Commit("refresh_token", args, refresh_token(Cur, now, args, e))

Logout ==
    \E e \in IoEnvs, b \in BOOLEAN :
        LET args == [NoArgs EXCEPT !.sign_out = b]
        IN  Commit("logout", args, logout(Cur, now, args, e))

\* what the owner API answers: 2xx with the envelope, a non-2xx status with
\* a body that lacks the 'response' key, a non-2xx status with the envelope
ApiResponses == {"ok", "error", "error_enveloped"}

\* a property of Account (me, products, vehicles, ...): get(self, ...)
AccountGet ==
    /\ account # None
    /\ \E r \in ApiResponses : Commit("Account.get", NoArgs, get(Cur, account, r))

\* a method of Vehicle.State: get(self, ...) with the headers of the Vehicle
StateGet ==
    /\ vehicles # None
    /\ \E r \in ApiResponses : Commit("State.get", NoArgs, get(Cur, vehicles, r))

\* a method of Vehicle.Command: post(self, ...) with the headers of the Vehicle
CommandPost ==
    /\ vehicles # None
    /\ \E r \in ApiResponses : Commit("Command.post", NoArgs, post(Cur, vehicles, r))

\* time() advances between calls
Tick ==
    /\ now < MaxTime
    /\ now' = now + 1
    /\ lastOp' = Idle("tick")
    /\ UNCHANGED <<token, access_token, client_refresh, sso_base_url, code_verifier,
                   url_challenge, account, vehicles, cacheFile>>

Next ==
    \/ Login
    \/ AuthorizationUrl
    \/ FetchTokenInteractive
    \/ FetchTokenWithResponse
    \/ RefreshToken
    \/ Logout
    \/ AccountGet
    \/ StateGet
    \/ CommandPost
    \/ Tick

Spec == Init /\ [][Next]_vars

\* ------------------------------------------ the cache functions on their own
\* _load_cache and _dump_cache applied to cache files in every state, with
\* every cache dict and every answer of the filesystem.
CacheRecords ==
    {Absent, Record("auth.tesla.cn", EmptyDict)}
        \cup {Record("auth.tesla.cn", MkToken(OldAccess, OldAccess, e)) :
                e \in {NoExp, 1, MaxTime + 1}}
Caches == [Identities -> CacheRecords]
CacheFiles ==
    {[kind |-> k, data |-> EmptyCache, mode |-> NoMode] : k \in {"noparent", "nodir", "missing"}}
        \cup {[kind |-> "corrupt", data |-> EmptyCache, mode |-> m] :
                m \in {OwnerRwGroupR, UmaskMode}}
        \cup {[kind |-> "ok", data |-> c, mode |-> m] :
                c \in Caches, m \in {OwnerRwGroupR, UmaskMode}}
AllIoOutcomes == {"ok", "open_err", "write_err"}

\* Client._load_cache, the expiry check on the record of this account: what
\* the comparison decides, "" when the record or its expires_at is missing
LoadCheck(f, t) ==
    IF f.kind # "ok" THEN ""
    ELSE IF ~f.data[Email].present \/ f.data[Email].sso.expires_at = NoExp THEN ""
    ELSE IF PyLE(PyInt(f.data[Email].sso.expires_at), Strftime(t)).raised THEN "TypeError"
    ELSE IF PyLE(PyInt(f.data[Email].sso.expires_at), Strftime(t)).val THEN "expired"
    ELSE "valid"

CacheInit ==
    /\ token = StrToken
    /\ access_token = None
    /\ client_refresh = None
    /\ sso_base_url = DefaultSso
    /\ code_verifier = None
    /\ url_challenge = NoChallenge
    /\ account = None
    /\ vehicles = None
    /\ cacheFile \in CacheFiles
    /\ now = 1
    /\ lastOp = Idle("init")

Session == <<token, access_token, client_refresh, sso_base_url, code_verifier,
             url_challenge, account, vehicles>>

LoadCache ==
    /\ cacheFile' = _load_cache(Cur, now).file
    /\ lastOp' = [op |-> "_load_cache", before |-> cacheFile, io |-> "",
                  exc |-> _load_cache(Cur, now).exc,
                  cache |-> _load_cache(Cur, now).cache,
                  check |-> LoadCheck(cacheFile, now)]
    /\ UNCHANGED <<Session, now>>

DumpCache ==
    \E c \in Caches, io \in AllIoOutcomes :
        /\ cacheFile' = _dump_cache(cacheFile, c, io)
        /\ lastOp' = [op |-> "_dump_cache", before |-> cacheFile, io |-> io,
                      exc |-> "", cache |-> c, check |-> ""]
        /\ UNCHANGED <<Session, now>>

CacheNext ==
    \/ LoadCache
    \/ DumpCache
    \/ Tick

CacheSpec == CacheInit /\ [][CacheNext]_vars

\* ================================================================= claims
Requests(op, kind) == {i \in DOMAIN op.net : op.net[i].kind = kind}
Grants(op, grant) == {i \in Requests(op, "token") : op.net[i].grant = grant}

\* the cache file holds a record of this account with a token in it
HoldsToken(f) == f.kind = "ok" /\ f.data[Email].present /\ Truthy(f.data[Email].sso)
Cached(f) == f.data[Email].sso

\* C1: login() on an unauthenticated session whose cache holds a record of
\* its identity with a non-expired token makes the session authorized with
\* that token, and neither probes the authorization endpoint, nor shows the
\* operator a URL, nor contacts the token endpoint.
C1_LoginReusesCachedToken ==
    [][(/\ lastOp'.op = "login"
        /\ access_token = None
        /\ HoldsToken(cacheFile)
        /\ Cached(cacheFile).expires_at - now > 0)
       => (/\ token' = Cached(cacheFile)
           /\ access_token' = Cached(cacheFile).access
           /\ Requests(lastOp', "probe") = {}
           /\ Requests(lastOp', "token") = {}
           /\ lastOp'.opened = <<>>)]_vars

\* C2: login() on an unauthenticated session whose cache holds a record of
\* its identity with expires_at earlier than now sends a refresh_token grant
\* to the token endpoint, and the stale token is not the session's token
\* afterwards.
C2_LoginRefreshesStaleToken ==
    [][(/\ lastOp'.op = "login"
        /\ access_token = None
        /\ HoldsToken(cacheFile)
        /\ Cached(cacheFile).expires_at < now)
       => (/\ Grants(lastOp', "refresh_token") # {}
           /\ token' # Cached(cacheFile))]_vars

\* requests of a step by grant and by the token endpoint's answer
Answered(op, grant, resp) == {i \in Grants(op, grant) : op.net[i].resp = resp}

\* the authorization URL a step returned, or gave to the browser
BuiltUrl(op) == IF op.op = "authorization_url" THEN op.ret.url ELSE op.opened[1]

C4_FailedFetchKeepsState ==
    [][Answered(lastOp', "authorization_code", "error") # {}
       => (/\ lastOp'.exc = "OAuth2Error"
           /\ access_token' = None
           /\ token' = token
           /\ ~Truthy(token')
           /\ account' = account
           /\ lastOp'.dumps = <<>>
           /\ lastOp'.op = "fetch_token" => cacheFile' = cacheFile)]_vars

C4_Witness ==
    /\ lastOp.op = "fetch_token"
    /\ lastOp.exc = "OAuth2Error"
    /\ Answered(lastOp, "authorization_code", "error") # {}
    /\ access_token = None

\* C5: a refresh the token endpoint answers with an error is raised to the
\* caller, and the session's token, its token attributes and the cache file
\* are exactly what they were before the call.
C5_FailedRefreshKeepsState ==
    [][Answered(lastOp', "refresh_token", "error") # {}
       => (/\ lastOp'.exc = "OAuth2Error"
           /\ token' = token
           /\ access_token' = access_token
           /\ client_refresh' = client_refresh
           /\ cacheFile' = cacheFile)]_vars

C5_Witness ==
    /\ lastOp.op = "refresh_token"
    /\ lastOp.exc = "OAuth2Error"
    /\ Answered(lastOp, "refresh_token", "error") # {}
    /\ Truthy(token)
    /\ cacheFile.kind = "corrupt"

\* C6: refresh_token() with no refresh_token argument on a session whose
\* token holds no refresh_token raises the configuration error and sends
\* nothing to the token endpoint.
C6_RefreshNeedsRefreshToken ==
    [][(/\ lastOp'.op = "refresh_token"
        /\ lastOp'.args.refresh_token = None
        /\ token.refresh = None)
       => (/\ lastOp'.exc = "ValueError"
           /\ lastOp'.net = <<>>)]_vars

\* C7: logout() on an authorized session leaves no token in the session,
\* writes the cache once with the tombstone {url: the SSO base URL, sso: {}}
\* for the identity, and returns the logout URL of the SSO base URL.
C7_LogoutClearsAndTombstones ==
    [][(lastOp'.op = "logout" /\ access_token # None)
       => (/\ ~Truthy(token')
           /\ Len(lastOp'.dumps) = 1
           /\ lastOp'.dumps[1].cache[Email] = Record(sso_base_url, EmptyDict)
           /\ lastOp'.ret = UrlRet(UrlJoin(sso_base_url, LogoutPath)))]_vars

\* C8: after logout() the session is not authorized, and a login() that
\* follows it shows the operator an authorization URL again.
C8_LogoutThenLoginStartsOver ==
    [][/\ lastOp'.op = "logout" => access_token' = None
       /\ (lastOp.op = "logout" /\ lastOp'.op = "login") => Len(lastOp'.opened) > 0]_vars

\* C9: a probe answered by a redirect moves the session's SSO base URL to
\* the origin of the redirect target and the URL built is that target; a
\* probe answered by an error leaves the base URL alone and the URL built is
\* the hint-less one; the base URL changes in no other way, and every token
\* request and logout URL of a step is at the base URL the step ends with.
C9_RegionFollowsRedirect ==
    [][/\ \A i \in Requests(lastOp', "probe") :
            /\ lastOp'.net[i].resp = "redirect" =>
                    /\ sso_base_url' = Origin(lastOp'.net[i].location)
                    /\ BuiltUrl(lastOp') = lastOp'.net[i].location
            /\ lastOp'.net[i].resp = "error" =>
                    /\ sso_base_url' = sso_base_url
                    /\ BuiltUrl(lastOp') =
                            [UrlJoin(sso_base_url, AuthorizePath)
                                EXCEPT !.challenge = lastOp'.net[i].challenge]
       /\ sso_base_url' # sso_base_url =>
            \E i \in Requests(lastOp', "probe") :
                /\ lastOp'.net[i].resp = "redirect"
                /\ lastOp'.net[i].location.origin = sso_base_url'
       /\ \A i \in Requests(lastOp', "token") : lastOp'.net[i].origin = sso_base_url'
       /\ lastOp'.op = "logout" =>
            /\ \A i \in DOMAIN lastOp'.opened : lastOp'.opened[i].origin = sso_base_url'
            /\ lastOp'.ret.kind = "url" => lastOp'.ret.url.origin = sso_base_url']_vars

C9_Witness ==
    /\ lastOp.op = "fetch_token"
    /\ \E i \in Requests(lastOp, "probe") :
            /\ lastOp.net[i].resp = "redirect"
            /\ lastOp.net[i].location.origin = "auth.tesla.cn"
    /\ \E i \in Requests(lastOp, "token") : lastOp.net[i].origin = "auth.tesla.cn"
    /\ sso_base_url = "auth.tesla.cn"

\* the challenge of the authorization URL built last is the one in every
\* URL the step probed, returned or showed
OneChallenge(op) ==
    /\ \A i \in Requests(op, "probe") : op.net[i].challenge = url_challenge
    /\ \A i \in DOMAIN op.opened :
            op.opened[i].path = AuthorizePath => op.opened[i].challenge = url_challenge
    /\ (op.ret.kind = "url" /\ op.ret.url.path = AuthorizePath) =>
            op.ret.url.challenge = url_challenge

\* C10 as stated: every code exchange sends a verifier, and its S256
\* challenge is the code_challenge of the authorization URL built last.
C10_VerifierOfLastUrl ==
    /\ \A i \in Grants(lastOp, "authorization_code") :
            /\ lastOp.net[i].verifier # None
            /\ S256(lastOp.net[i].verifier) = url_challenge
    /\ OneChallenge(lastOp)

\* C10, amended: every code exchange of a call that is not given a
\* code_verifier of its own sends the verifier whose S256 challenge is the
\* code_challenge of the authorization URL built last (the same in the
\* hint-less and the login_hint URL); a caller's code_verifier is sent as is.
C10_VerifierOfLastUrlUnlessGiven ==
    /\ \A i \in Grants(lastOp, "authorization_code") :
            /\ lastOp.net[i].verifier # None
            /\ lastOp.args.code_verifier = None =>
                    S256(lastOp.net[i].verifier) = url_challenge
            /\ lastOp.args.code_verifier # None =>
                    lastOp.net[i].verifier = lastOp.args.code_verifier
    /\ OneChallenge(lastOp)

C10_Witness ==
    /\ lastOp.op = "fetch_token"
    /\ lastOp.args.authorization_response = "given"
    /\ lastOp.args.code_verifier = None
    /\ Answered(lastOp, "authorization_code", "ok") # {}
    /\ S256(code_verifier) = url_challenge

\* C11: authorization_url() on an authorized session returns None and
\* changes nothing: the code_verifier and the challenge are the ones the
\* session had, no request is sent, nothing is shown, and the SSO base URL,
\* the token and the cache file are as before.
C11_AuthorizedBuildsNoUrl ==
    [][(lastOp'.op = "authorization_url" /\ access_token # None)
       => (/\ lastOp'.ret = NoRet
           /\ lastOp'.exc = ""
           /\ lastOp'.net = <<>>
           /\ lastOp'.opened = <<>>
           /\ lastOp'.dumps = <<>>
           /\ UNCHANGED <<token, access_token, client_refresh, sso_base_url, code_verifier,
                          url_challenge, account, vehicles, cacheFile>>)]_vars

C11_Witness ==
    /\ lastOp.op = "authorization_url"
    /\ access_token # None
    /\ code_verifier # None
    /\ lastOp.ret.kind = "none"

\* the file is where a save that worked leaves it
Saved(f, cache) == f.kind = "ok" /\ f.data = cache

\* C12: a record of the session's identity that was saved is the record a
\* load that follows the save yields for that identity.
C12_SaveThenLoad ==
    [][(/\ lastOp.op = "_dump_cache"
        /\ Saved(cacheFile, lastOp.cache)
        /\ lastOp.cache[Email].present
        /\ lastOp'.op = "_load_cache")
       => lastOp'.cache[Email] = lastOp.cache[Email]]_vars

\* the cache file is missing, unparsable, or lacks what the loader reads
Unusable(f) ==
    \/ f.kind # "ok"
    \/ ~f.data[Email].present
    \/ f.data[Email].sso.expires_at = NoExp

\* C13: a load of a cache file that is missing, unparsable or structurally
\* invalid raises nothing, yields the empty cache and leaves the cache
\* directory in place; a save that follows a load, the filesystem
\* accepting the write, leaves the saved cache in the file.
C13_LoadFailsSoft ==
    [][/\ (lastOp'.op = "_load_cache" /\ Unusable(cacheFile)) =>
            /\ lastOp'.exc = ""
            /\ lastOp'.cache = EmptyCache
            /\ cacheFile'.kind \notin {"noparent", "nodir"}
       /\ (lastOp.op = "_load_cache" /\ lastOp'.op = "_dump_cache" /\ lastOp'.io = "ok") =>
            Saved(cacheFile', lastOp'.cache)]_vars

\* C14: a save that fails raises nothing and leaves the cache file with
\* the content it had before the save.
C14_FailedSaveKeepsFile ==
    [][(lastOp'.op = "_dump_cache" /\ lastOp'.io # "ok")
       => (lastOp'.exc = "" /\ cacheFile' = cacheFile)]_vars

\* C15: after a save that wrote the cache into the file, the file's mode is
\* owner read/write and group read, whatever it was before.
C15_SavedFileMode ==
    (/\ lastOp.op = "_dump_cache"
     /\ lastOp.io = "ok"
     /\ Saved(cacheFile, lastOp.cache))
    => cacheFile.mode = OwnerRwGroupR

C15_Witness ==
    /\ lastOp.op = "_dump_cache"
    /\ lastOp.io = "ok"
    /\ Saved(cacheFile, lastOp.cache)
    /\ lastOp.before.mode # OwnerRwGroupR
    /\ cacheFile.mode = OwnerRwGroupR
    /\ lastOp.cache[Email].present

\* C16: the expiry check made on a cached token when it is loaded decides
\* "expired" exactly when expires_at - now <= 0, and Client.expired of a
\* session holding that token decides the same.
C16_ExpiryDecisions ==
    (/\ lastOp.op = "_load_cache"
     /\ HoldsToken(lastOp.before)
     /\ Cached(lastOp.before).expires_at # NoExp)
    => /\ lastOp.check = IF Cached(lastOp.before).expires_at - now <= 0
                         THEN "expired" ELSE "valid"
       /\ expired(SetToken(Cur, Cached(lastOp.before)), now)
            <=> (Cached(lastOp.before).expires_at - now <= 0)

\* the calls made through the collaborators
ApiOps == {"Account.get", "State.get", "Command.post"}

\* C17: every request made through Account, State or Command carries the
\* session's current access token as its bearer.
C17_BearerIsCurrentToken ==
    \A i \in Requests(lastOp, "api") : lastOp.net[i].bearer = access_token

\* C18: no request made through Account, State or Command is sent while
\* the session's token is expired.
C18_NoRequestWithExpiredToken ==
    \A i \in Requests(lastOp, "api") :
        expires_at(Cur) # NoExp => ~expired(Cur, now)

\* C19: a get or post answered with a non-2xx status returns no value and
\* raises a request failure, and a call sends one request.
C19_ErrorStatusRaises ==
    lastOp.op \in ApiOps =>
        /\ Len(lastOp.net) = 1
        /\ lastOp.net[1].resp # "ok" =>
                /\ lastOp.exc = "HTTPError"
                /\ lastOp.ret.kind # "value"

\* C20: a step that writes the cache file for this session's identity
\* leaves in the file the records of every other identity it held.
C20_OtherRecordsKept ==
    [][\A i \in DOMAIN lastOp'.dumps :
            (cacheFile.kind = "ok" /\ lastOp'.dumps[i].io = "ok") =>
                \A id \in Identities \ {Email} :
                    cacheFile'.data[id] = cacheFile.data[id]]_vars

\* the step's GET of the vehicles was answered with an error
VehiclesFailed(op) == \E i \in Requests(op, "api") : op.net[i].resp # "ok"

\* C21: login() on an unauthenticated session either raises the failure of
\* the token exchange or returns with the session authorized, the Account
\* built and the vehicles mapped; with a non-expired token of its identity
\* in the cache it returns without error.  (A failure of the owner API in
\* the listing of the vehicles is left aside.)
C21_LoginRaisesOrPopulates ==
    [][(lastOp'.op = "login" /\ access_token = None /\ ~VehiclesFailed(lastOp'))
       => (/\ lastOp'.exc \in {"", "OAuth2Error"}
           /\ lastOp'.exc = "" =>
                /\ access_token' # None
                /\ account' # None
                /\ vehicles' # None
           /\ (HoldsToken(cacheFile) /\ Cached(cacheFile).expires_at - now > 0) =>
                lastOp'.exc = "")]_vars

====
